---- MODULE Spec2Model ----
(***************************************************************************)
(* Mind-map editor (App.jsx, MindMap.jsx, utils.js): the tree edit engine, *)
(* the undo/redo history and the drag session, as a state machine.         *)
(*                                                                         *)
(* One action is one event handler run to completion together with the    *)
(* re-render and the effects it triggers (React runs a handler against the *)
(* state of the last render, batches its setState calls, and runs the      *)
(* "ensure selected exists" effect before the next event is handled).      *)
(*                                                                         *)
(* Values.  A node is a record                                             *)
(*   [id, name, children, collapsed, px, py]                               *)
(* where children is a sequence of nodes, name is a sequence of tokens     *)
(* (" " is the whitespace token), and an optional field (collapsed, px,    *)
(* py) is Null when the JS property is absent and Some(v) when it is v.    *)
(* Every nullable piece of state (preDragSnapshot, dragging,               *)
(* hoverTargetId) is Null or Some(v) as well.  Ids are positive integers;  *)
(* nanoid(8) is modelled by the counter nextId (a fresh id each call).     *)
(***************************************************************************)
EXTENDS Integers, Sequences, FiniteSets, TLC

VARIABLES
  tree,             \* App: useState tree
  selectedId,       \* App: useState selectedId
  undoStack,        \* App: useState undoStack (sequence of snapshots)
  redoStack,        \* App: useState redoStack
  preDragSnapshot,  \* App: useState preDragSnapshot (Null or Some(snapshot))
  dragging,         \* MindMap: useState dragging (Null or Some([id, mode]))
  hoverTargetId,    \* MindMap: useState hoverTargetId (Null or Some(id))
  nextId,           \* the next id nanoid(8) hands out
  last,             \* history variable: the last handler, its arguments, the state before it
  gest,             \* history variable: the drag gesture in progress
  steps,            \* history variable: number of handlers run so far
  script            \* history variable: progress of an edit / undo / redo script

vars == <<tree, selectedId, undoStack, redoStack, preDragSnapshot,
          dragging, hoverTargetId, nextId, last, gest, steps, script>>

----------------------------------------------------------------------------
(* Bounds of the model *)

MaxIds == 5       \* ids nanoid may hand out in one run are 1..MaxIds
MaxCoord == 2     \* pointer coordinates are 1..MaxCoord
MaxSteps == 2     \* handlers run in one behaviour of Spec
MaxDragSteps == 7 \* handlers run in one behaviour of SpecDrag

MaxHistSteps == 5 \* handlers run in one behaviour of SpecHist
MaxEdits == 2     \* edits in one script of SpecInverse
MaxMoves == 2     \* pointer-moves in one gesture of SpecInverse
MaxIOSteps == 3   \* handlers run after the first render in one behaviour of SpecIO
MaxSessionSteps == 3 \* handlers run in one behaviour of SpecSession

(* Program constant: the capacity of the undo stack *)
HistoryCap == 10

----------------------------------------------------------------------------
(* Values *)

Null == <<>>
Some(v) == <<v>>

Coords == 1..MaxCoord

\* A node object literal with the given id, name and children and no other property.
Node(id, name, children) ==
  [id |-> id, name |-> name, children |-> children,
   collapsed |-> Null, px |-> Null, py |-> Null]

\* Array.prototype.map on a sequence.
Map(s, f(_)) == [i \in 1..Len(s) |-> f(s[i])]

RECURSIVE NodeIdSeq(_)
\* The ids of a tree in pre-order, with repetitions.
NodeIdSeq(n) ==
  LET RECURSIVE cat(_)
      cat(kids) == IF kids = <<>> THEN <<>>
                   ELSE NodeIdSeq(Head(kids)) \o cat(Tail(kids))
  IN <<n.id>> \o cat(n.children)

NodeIds(n) == {NodeIdSeq(n)[i] : i \in 1..Len(NodeIdSeq(n))}

UniqueIds(n) == Cardinality(NodeIds(n)) = Len(NodeIdSeq(n))

----------------------------------------------------------------------------
(* utils.js *)

RECURSIVE findNode(_, _)
\* findNode(root, id): the first node with that id in pre-order, or null.
findNode(root, id) ==
  IF root.id = id THEN Some(root)
  ELSE LET RECURSIVE first(_)
           first(kids) ==
             IF kids = <<>> THEN Null
             ELSE LET found == findNode(Head(kids), id)
                  IN IF found # Null THEN found ELSE first(Tail(kids))
       IN first(root.children)

\* mapTree(node, fn): fn applied top-down; the children mapped are those of fn's result.
mapTree(node, fn(_)) ==
  LET RECURSIVE go(_)
      go(n) == LET next == fn(n)
               IN [next EXCEPT !.children = Map(next.children, go)]
  IN go(node)

RECURSIVE clone(_)
\* clone(obj) = JSON.parse(JSON.stringify(obj)): a property survives iff it is
\* defined, so an absent optional stays absent; strings, booleans and finite
\* numbers come back as they went in.
clone(n) ==
  [id |-> n.id, name |-> n.name, children |-> Map(n.children, clone),
   collapsed |-> n.collapsed, px |-> n.px, py |-> n.py]

\* assignIds(node) for a node literal with no id and no children: nanoid(8) is nano.
assignIds(name, nano) == Node(nano, name, <<>>)

----------------------------------------------------------------------------
(* App.jsx: history helpers *)

\* snapshot(): JSON.stringify({tree, selectedId}), kept in parsed form.
snapshot(t, sel) == [tree |-> clone(t), selectedId |-> sel]

\* pushUndo with the setRedoStack([]) left out.
pushUndoKeepsRedo(stacks, snap) ==
  [undo |-> IF Len(Append(stacks.undo, snap)) > HistoryCap
            THEN SubSeq(Append(stacks.undo, snap), 2, Len(stacks.undo) + 1)
            ELSE Append(stacks.undo, snap),
   redo |-> stacks.redo]

\* A faulty variant of Capped: the slice keeps the first 10 entries.
CappedKeepsOldest(next) ==
  IF Len(next) > HistoryCap THEN SubSeq(next, 1, HistoryCap) ELSE next

\* next.length > 10 ? next.slice(next.length - 10) : next
Capped(next) ==
  IF Len(next) > HistoryCap
  THEN SubSeq(next, Len(next) - HistoryCap + 1, Len(next))
  ELSE next

\* A faulty variant of ensureSelected: the effect does nothing.
ensureSelectedOff(t, sel) == sel

\* The "ensure selected exists" effect, run after every render.
ensureSelected(t, sel) == IF findNode(t, sel) = Null THEN t.id ELSE sel

\* pushUndo(): the stacks after it.
pushUndo(stacks, snap) ==
  [undo |-> Capped(Append(stacks.undo, snap)), redo |-> <<>>]

\* if (!preDragSnapshot) pushUndo(): the stacks after it.
pushUnlessDragging ==
  LET stacks == [undo |-> undoStack, redo |-> redoStack]
  IN IF preDragSnapshot = Null
     THEN pushUndo(stacks, snapshot(tree, selectedId))
     ELSE stacks

----------------------------------------------------------------------------
(* History variables *)

Pre == [tree |-> tree, selectedId |-> selectedId, undoStack |-> undoStack,
        redoStack |-> redoStack, preDragSnapshot |-> preDragSnapshot,
        dragging |-> dragging, hoverTargetId |-> hoverTargetId]

Did(op, args) == last' = [op |-> op, args |-> args, pre |-> Pre]

\* gest follows one drag session, from a pointer-down with no drag active to
\* the pointer-up: phase is "none", "drag" (pointer down),
\* "committed" (pointer-up called moveCommit), "ended" (pointer-up did not) or
\* "undone" (undo right after the commit); n counts its moveNode calls (2 is
\* "two or more"); snap and undo0 are the snapshot and the undo stack just
\* before its first moveNode.  Any other handler in between ends the record.
NoScript == [phase |-> "edit", k |-> 0, u |-> 0, r |-> 0, moves |-> 0, treeK |-> Null]

NoGesture == [phase |-> "none", n |-> 0, snap |-> Null, undo0 |-> <<>>]

----------------------------------------------------------------------------
(* App.jsx: tree operations *)

\* A faulty variant of addChildTree: the new node is put first.
addChildTreeFirst(t, id, nano) ==
  mapTree(clone(t),
          LAMBDA n : IF n.id = id
                     THEN [n EXCEPT !.children =
                             <<assignIds(<<"New", " ", "Node">>, nano)>> \o n.children]
                     ELSE n)

\* The tree addChild(id) builds.
addChildTree(t, id, nano) ==
  mapTree(clone(t),
          LAMBDA n : IF n.id = id
                     THEN [n EXCEPT !.children =
                             n.children \o <<assignIds(<<"New", " ", "Node">>, nano)>>]
                     ELSE n)

addChild(id) ==
  /\ findNode(tree, id) # Null => nextId <= MaxIds
  /\ LET newTree == addChildTree(tree, id, nextId)
         stacks == pushUnlessDragging
     IN /\ tree' = newTree
        /\ selectedId' = ensureSelected(newTree, id)
        /\ undoStack' = stacks.undo
        /\ redoStack' = stacks.redo
        /\ nextId' = IF findNode(tree, id) # Null THEN nextId + 1 ELSE nextId
  /\ UNCHANGED <<preDragSnapshot, dragging, hoverTargetId>>
  /\ Did("addChild", <<id>>)
  /\ gest' = NoGesture

\* A faulty variant of deleteNodeTree: remove does not recurse into the children it keeps.
deleteNodeTreeTopOnly(t, id) ==
  [clone(t) EXCEPT !.children = SelectSeq(clone(t).children, LAMBDA c : c.id # id)]

\* The tree deleteNode(id) builds: remove(n) drops every child with that id, at every level.
deleteNodeTree(t, id) ==
  LET RECURSIVE remove(_)
      remove(n) ==
        [n EXCEPT !.children =
           Map(SelectSeq(n.children, LAMBDA c : c.id # id), remove)]
  IN remove(clone(t))

deleteNode(id) ==
  /\ IF tree.id = id
     THEN UNCHANGED <<tree, selectedId, undoStack, redoStack>>
     ELSE LET newTree == deleteNodeTree(tree, id)
              stacks == pushUnlessDragging
          IN /\ tree' = newTree
             /\ selectedId' = ensureSelected(newTree, newTree.id)
             /\ undoStack' = stacks.undo
             /\ redoStack' = stacks.redo
  /\ UNCHANGED <<preDragSnapshot, dragging, hoverTargetId, nextId>>
  /\ Did("deleteNode", <<id>>)
  /\ gest' = NoGesture

RECURSIVE trimStart(_)
\* String.prototype.trim on a sequence of tokens: whitespace tokens go from both ends.
trimStart(name) ==
  IF name # <<>> /\ Head(name) = " " THEN trimStart(Tail(name)) ELSE name

RECURSIVE trimEnd(_)
trimEnd(name) ==
  IF name # <<>> /\ name[Len(name)] = " "
  THEN trimEnd(SubSeq(name, 1, Len(name) - 1))
  ELSE name

trim(name) == trimEnd(trimStart(name))

\* (name || 'Node').trim() || 'Node'
cleanName(name) ==
  LET given == IF name = <<>> THEN <<"Node">> ELSE name
  IN IF trim(given) = <<>> THEN <<"Node">> ELSE trim(given)

renameNodeTree(t, id, name) ==
  mapTree(clone(t),
          LAMBDA n : IF n.id = id THEN [n EXCEPT !.name = cleanName(name)] ELSE n)

renameNode(id, name) ==
  /\ LET stacks == pushUnlessDragging
     IN /\ tree' = renameNodeTree(tree, id, name)
        /\ selectedId' = ensureSelected(tree', selectedId)
        /\ undoStack' = stacks.undo
        /\ redoStack' = stacks.redo
  /\ UNCHANGED <<preDragSnapshot, dragging, hoverTargetId, nextId>>
  /\ Did("renameNode", <<id, name>>)
  /\ gest' = NoGesture

\* !n.collapsed: an absent or false flag becomes true, a true one false.
toggleCollapseTree(t, id) ==
  mapTree(clone(t),
          LAMBDA n : IF n.id = id
                     THEN [n EXCEPT !.collapsed = Some(n.collapsed # Some(TRUE))]
                     ELSE n)

toggleCollapse(id) ==
  /\ LET stacks == pushUnlessDragging
     IN /\ tree' = toggleCollapseTree(tree, id)
        /\ selectedId' = ensureSelected(tree', selectedId)
        /\ undoStack' = stacks.undo
        /\ redoStack' = stacks.redo
  /\ UNCHANGED <<preDragSnapshot, dragging, hoverTargetId, nextId>>
  /\ Did("toggleCollapse", <<id>>)
  /\ gest' = NoGesture

\* A faulty variant of isDesc: only the node itself is compared.
isDescSelfOnly(n, id) == n.id = id

RECURSIVE isDesc(_, _)
\* isDesc(n, id): n is the node with that id or has it below.
isDesc(n, id) ==
  \/ n.id = id
  \/ \E i \in 1..Len(n.children) : isDesc(n.children[i], id)

\* A faulty variant of reattach: moved is put first among the new parent's children.
reattachFirst(without, newParentId, moved) ==
  mapTree(without,
          LAMBDA n : IF n.id = newParentId
                     THEN [n EXCEPT !.children = <<moved>> \o n.children]
                     ELSE n)

\* reattached: moved appended to the children of every node with id newParentId.
reattach(without, newParentId, moved) ==
  mapTree(without,
          LAMBDA n : IF n.id = newParentId
                     THEN [n EXCEPT !.children = n.children \o <<moved>>]
                     ELSE n)

\* A faulty variant of reparentResult: the child is not removed from its old parent.
reparentResultCopies(t, childId, newParentId) ==
  IF childId = t.id THEN [outcome |-> "rejected", tree |-> t]
  ELSE IF childId = newParentId THEN [outcome |-> "rejected", tree |-> t]
  ELSE IF findNode(t, childId) = Null THEN [outcome |-> "threw", tree |-> t]
  ELSE IF isDesc(findNode(t, childId)[1], newParentId)
       THEN [outcome |-> "rejected", tree |-> t]
  ELSE [outcome |-> "moved",
        tree |-> reattach(clone(t), newParentId, findNode(clone(t), childId)[1])]

\* The outcome of reparent(childId, newParentId) on tree t:
\*   "rejected" (one of the three early returns), "threw" (findNode gave null
\*   and isDesc read null.id), or "moved" with the tree it sets.
reparentResult(t, childId, newParentId) ==
  IF childId = t.id THEN [outcome |-> "rejected", tree |-> t]
  ELSE IF childId = newParentId THEN [outcome |-> "rejected", tree |-> t]
  ELSE IF findNode(t, childId) = Null THEN [outcome |-> "threw", tree |-> t]
  ELSE IF isDesc(findNode(t, childId)[1], newParentId)
       THEN [outcome |-> "rejected", tree |-> t]
  ELSE LET moved == findNode(clone(t), childId)[1]
           without == deleteNodeTree(t, childId)
       IN [outcome |-> "moved", tree |-> reattach(without, newParentId, moved)]

\* reparent as a step of a handler: the App state after it.
reparentState(childId, newParentId) ==
  LET r == reparentResult(tree, childId, newParentId)
      stacks == pushUnlessDragging
  IN IF r.outcome = "moved"
     THEN [tree |-> r.tree, selectedId |-> childId,
           undo |-> stacks.undo, redo |-> stacks.redo]
     ELSE [tree |-> tree, selectedId |-> selectedId,
           undo |-> undoStack, redo |-> redoStack]

reparent(childId, newParentId) ==
  /\ LET st == reparentState(childId, newParentId)
     IN /\ tree' = st.tree
        /\ selectedId' = ensureSelected(st.tree, st.selectedId)
        /\ undoStack' = st.undo
        /\ redoStack' = st.redo
  /\ UNCHANGED <<preDragSnapshot, dragging, hoverTargetId, nextId>>
  /\ Did("reparent", <<childId, newParentId>>)
  /\ gest' = NoGesture

\* A faulty variant of moveNodeTree: x and y are added to the position the node has.
moveNodeTreeRelative(t, id, x, y) ==
  mapTree(clone(t),
          LAMBDA n : IF n.id = id
                     THEN [n EXCEPT !.px = Some(x + (IF n.px = Null THEN 0 ELSE n.px[1])),
                                    !.py = Some(y + (IF n.py = Null THEN 0 ELSE n.py[1]))]
                     ELSE n)

\* moveNode: if (!preDragSnapshot) setPreDragSnapshot(snapshot()).
moveNodeSnapshot(pending, t, sel) ==
  IF pending = Null THEN Some(snapshot(t, sel)) ELSE pending

\* The tree moveNode(id, x, y) builds.
moveNodeTree(t, id, x, y) ==
  mapTree(clone(t),
          LAMBDA n : IF n.id = id THEN [n EXCEPT !.px = Some(x), !.py = Some(y)] ELSE n)

\* moveCommit(): the history after it.
moveCommitState ==
  IF preDragSnapshot # Null
  THEN [undo |-> Capped(Append(undoStack, preDragSnapshot[1])),
        redo |-> <<>>, preDrag |-> Null]
  ELSE [undo |-> undoStack, redo |-> redoStack, preDrag |-> preDragSnapshot]

----------------------------------------------------------------------------
(* App.jsx: undo / redo *)

\* A faulty variant of undoState: the current state is not pushed onto the redo stack.
undoStateNoRedoPush ==
  IF undoStack = <<>>
  THEN [tree |-> tree, selectedId |-> selectedId, undo |-> undoStack, redo |-> redoStack]
  ELSE LET lastSnap == undoStack[Len(undoStack)]
       IN [tree |-> lastSnap.tree, selectedId |-> lastSnap.selectedId,
           undo |-> SubSeq(undoStack, 1, Len(undoStack) - 1),
           redo |-> redoStack]

\* undo(): the App state after it, before the effects.
undoState ==
  IF undoStack = <<>>
  THEN [tree |-> tree, selectedId |-> selectedId, undo |-> undoStack, redo |-> redoStack]
  ELSE LET lastSnap == undoStack[Len(undoStack)]
       IN [tree |-> lastSnap.tree, selectedId |-> lastSnap.selectedId,
           undo |-> SubSeq(undoStack, 1, Len(undoStack) - 1),
           redo |-> Append(redoStack, snapshot(tree, selectedId))]

undo ==
  /\ tree' = undoState.tree
  /\ selectedId' = ensureSelected(undoState.tree, undoState.selectedId)
  /\ undoStack' = undoState.undo
  /\ redoStack' = undoState.redo
  /\ UNCHANGED <<preDragSnapshot, dragging, hoverTargetId, nextId>>
  /\ Did("undo", <<>>)
  /\ gest' = IF gest.phase = "committed"
             THEN [gest EXCEPT !.phase = "undone"]
             ELSE NoGesture

\* A faulty variant of redoState: the undo stack is left as it is.
redoStateNoUndoPush ==
  IF redoStack = <<>>
  THEN [tree |-> tree, selectedId |-> selectedId, undo |-> undoStack, redo |-> redoStack]
  ELSE LET lastSnap == redoStack[Len(redoStack)]
       IN [tree |-> lastSnap.tree, selectedId |-> lastSnap.selectedId,
           undo |-> undoStack,
           redo |-> SubSeq(redoStack, 1, Len(redoStack) - 1)]

\* redo(): the App state after it, before the effects.
redoState ==
  IF redoStack = <<>>
  THEN [tree |-> tree, selectedId |-> selectedId, undo |-> undoStack, redo |-> redoStack]
  ELSE LET lastSnap == redoStack[Len(redoStack)]
       IN [tree |-> lastSnap.tree, selectedId |-> lastSnap.selectedId,
           undo |-> Append(undoStack, snapshot(tree, selectedId)),
           redo |-> SubSeq(redoStack, 1, Len(redoStack) - 1)]

redo ==
  /\ tree' = redoState.tree
  /\ selectedId' = ensureSelected(redoState.tree, redoState.selectedId)
  /\ undoStack' = redoState.undo
  /\ redoStack' = redoState.redo
  /\ UNCHANGED <<preDragSnapshot, dragging, hoverTargetId, nextId>>
  /\ Did("redo", <<>>)
  /\ gest' = NoGesture

----------------------------------------------------------------------------
(* MindMap.jsx: layout and the drag session *)

RECURSIVE layoutIds(_)
\* The ids of laid.descendants(): d3.hierarchy(data, d => d.collapsed ? [] : d.children).
layoutIds(n) ==
  LET RECURSIVE cat(_)
      cat(kids) == IF kids = <<>> THEN <<>>
                   ELSE layoutIds(Head(kids)) \o cat(Tail(kids))
  IN <<n.id>> \o (IF n.collapsed = Some(TRUE) THEN <<>> ELSE cat(n.children))

LaidOut(t) == {layoutIds(t)[i] : i \in 1..Len(layoutIds(t))}

\* A faulty variant of hierarchyChildren: collapsed is ignored.
hierarchyChildrenAll(d) == d.children

\* The children accessor of d3.hierarchy: d => (d.collapsed ? [] : (d.children || [])).
hierarchyChildren(d) == IF d.collapsed = Some(TRUE) THEN <<>> ELSE d.children

\* nodes: one LayoutNode per node of the hierarchy, with the fields the
\* properties read (parentId is null for the root).
layoutNodes(t) ==
  LET RECURSIVE walk(_, _, _)
      walk(d, parentId, depth) ==
        LET kids == hierarchyChildren(d)
            RECURSIVE below(_)
            below(i) == IF i > Len(kids) THEN <<>>
                        ELSE walk(kids[i], Some(d.id), depth + 1) \o below(i + 1)
        IN <<[id |-> d.id, parentId |-> parentId, depth |-> depth,
              hasChildren |-> Len(kids) > 0]>> \o below(1)
  IN walk(t, Null, 0)

\* links: laid.links(), one {source, target} per hierarchy node that has a parent.
layoutLinks(t) ==
  LET RECURSIVE walk(_)
      walk(d) ==
        LET kids == hierarchyChildren(d)
            RECURSIVE below(_)
            below(i) == IF i > Len(kids) THEN <<>>
                        ELSE <<[source |-> d.id, target |-> kids[i].id]>>
                               \o walk(kids[i]) \o below(i + 1)
        IN below(1)
  IN walk(t)

\* handleMouseDownNode(e, n), canvas unlocked: n is a laid-out node.
handleMouseDownNode(shiftKey, id) ==
  /\ dragging' = Some([id |-> id, mode |-> IF shiftKey THEN "reparent" ELSE "move"])
  /\ selectedId' = ensureSelected(tree, id)
  /\ UNCHANGED <<tree, undoStack, redoStack, preDragSnapshot, hoverTargetId, nextId>>
  /\ Did("mouseDown", <<id>>)
  /\ gest' = IF dragging = Null
             THEN [phase |-> "drag", n |-> 0, snap |-> Null, undo0 |-> <<>>]
             ELSE NoGesture

\* handleMouseMove(e), canvas unlocked.  In move mode the pointer is at (x, y)
\* plus the grab offset; in reparent mode nearest is the laid-out node within
\* the hover radius of the pointer, if any.
handleMouseMove(shiftKey, x, y, nearest) ==
  /\ IF dragging = Null
     THEN /\ UNCHANGED <<tree, selectedId, preDragSnapshot, dragging, hoverTargetId>>
          /\ gest' = gest
     ELSE LET mode == IF shiftKey THEN "reparent" ELSE "move"
          IN /\ dragging' = Some([dragging[1] EXCEPT !.mode = mode])
             /\ IF mode = "move"
                THEN /\ preDragSnapshot' =
                          moveNodeSnapshot(preDragSnapshot, tree, selectedId)
                     /\ tree' = moveNodeTree(tree, dragging[1].id, x, y)
                     /\ selectedId' = ensureSelected(tree', selectedId)
                     /\ hoverTargetId' = Null
                     /\ gest' = IF gest.phase # "drag" THEN NoGesture
                                ELSE IF gest.n = 0
                                THEN [phase |-> "drag", n |-> 1,
                                      snap |-> Some(snapshot(tree, selectedId)),
                                      undo0 |-> undoStack]
                                ELSE [gest EXCEPT !.n = 2]
                ELSE /\ nearest # Null =>
                          nearest[1] \in LaidOut(tree) \ {dragging[1].id}
                     /\ hoverTargetId' = nearest
                     /\ UNCHANGED <<tree, selectedId, preDragSnapshot>>
                     /\ gest' = gest
  /\ UNCHANGED <<undoStack, redoStack, nextId>>
  /\ Did("mouseMove", <<shiftKey, x, y, nearest>>)

\* handleMouseUp(), canvas unlocked.
handleMouseUp ==
  /\ IF dragging = Null
     THEN /\ UNCHANGED <<tree, selectedId, undoStack, redoStack, preDragSnapshot,
                         dragging, hoverTargetId>>
          /\ gest' = gest
     ELSE LET d == dragging[1]
              drop == d.mode = "reparent" /\ hoverTargetId # Null
                      /\ hoverTargetId # Some(d.id)
              st == IF drop
                    THEN reparentState(d.id, hoverTargetId[1])
                    ELSE [tree |-> tree, selectedId |-> selectedId,
                          undo |-> undoStack, redo |-> redoStack]
              mc == moveCommitState
          IN /\ tree' = st.tree
             /\ selectedId' = ensureSelected(st.tree, st.selectedId)
             /\ undoStack' = IF d.mode = "move" THEN mc.undo ELSE st.undo
             /\ redoStack' = IF d.mode = "move" THEN mc.redo ELSE st.redo
             /\ preDragSnapshot' = IF d.mode = "move" THEN mc.preDrag ELSE preDragSnapshot
             /\ dragging' = Null
             /\ hoverTargetId' = Null
             /\ gest' = IF gest.phase # "drag" THEN NoGesture
                        ELSE IF d.mode = "move"
                        THEN [gest EXCEPT !.phase = "committed"]
                        ELSE [gest EXCEPT !.phase = "ended"]
  /\ UNCHANGED nextId
  /\ Did("mouseUp", <<>>)

----------------------------------------------------------------------------
(* Initial state *)

Leaf(id) == Node(id, <<"Idea">>, <<>>)

Root(children) == Node(1, <<"Central", " ", "Topic">>, children)

\* Trees the editor starts with: the persisted tree of an earlier session
\* (localStorage 'mindmap.tree'), ids in pre-order.
PersistedTrees ==
  { Root(<<>>),
    Root(<<Leaf(2)>>),
    Root(<<Leaf(2), Leaf(3)>>),
    Root(<<Node(2, <<"Idea">>, <<Leaf(3)>>)>>),
    Root(<<Node(2, <<"Idea">>, <<Leaf(3)>>), Leaf(4)>>),
    Root(<<[Node(2, <<"Idea">>, <<[Leaf(3) EXCEPT !.px = Some(1), !.py = Some(2)],
                                   Leaf(4)>>)
            EXCEPT !.collapsed = Some(TRUE)]>>) }

InitState(t, history) ==
  /\ tree = t
  /\ selectedId = tree.id
  /\ undoStack = history
  /\ redoStack = <<>>
  /\ preDragSnapshot = Null
  /\ dragging = Null
  /\ hoverTargetId = Null
  /\ nextId = Len(NodeIdSeq(tree)) + 1
  /\ last = [op |-> "init", args |-> <<>>, pre |-> Pre]
  /\ gest = NoGesture
  /\ steps = 0
  /\ script = NoScript

InitWith(trees) == \E t \in trees : InitState(t, <<>>)

Init == InitWith(PersistedTrees)

Step(bound) == steps < bound /\ steps' = steps + 1 /\ UNCHANGED script

\* Ids a handler can be called with: every id of the tree and one that is not in it.
IdInputs == NodeIds(tree) \cup {nextId}

NameInputs == {<<>>, <<" ", "x", " ">>, <<"y">>}

Next ==
  \/ Step(MaxSteps) /\ \E id \in IdInputs : addChild(id)
  \/ Step(MaxSteps) /\ \E id \in IdInputs : deleteNode(id)
  \/ Step(MaxSteps) /\ \E id \in IdInputs, name \in NameInputs : renameNode(id, name)
  \/ Step(MaxSteps) /\ \E id \in IdInputs : toggleCollapse(id)
  \/ Step(MaxSteps) /\ \E c \in IdInputs, p \in IdInputs : reparent(c, p)
  \/ Step(MaxSteps) /\ undo
  \/ Step(MaxSteps) /\ redo
  \/ Step(MaxSteps) /\ \E id \in LaidOut(tree), shiftKey \in BOOLEAN :
                          handleMouseDownNode(shiftKey, id)
  \/ Step(MaxSteps) /\ \E x \in Coords, y \in Coords : handleMouseMove(FALSE, x, y, Null)
  \/ Step(MaxSteps) /\ \E nearest \in {Null} \cup {Some(i) : i \in LaidOut(tree)} :
                          handleMouseMove(TRUE, 1, 1, nearest)
  \/ Step(MaxSteps) /\ handleMouseUp

Spec == Init /\ [][Next]_vars

(* The drag session with the keyboard and toolbar shortcuts on the selection:
   Enter (addChild), Undo and Redo (enabled while their stack is non-empty). *)
InitDrag == InitWith({Root(<<Leaf(2)>>)})

NextDrag ==
  \/ Step(MaxDragSteps) /\ addChild(selectedId)
  \/ Step(MaxDragSteps) /\ undoStack # <<>> /\ undo
  \/ Step(MaxDragSteps) /\ redoStack # <<>> /\ redo
  \/ Step(MaxDragSteps) /\ \E id \in LaidOut(tree) : handleMouseDownNode(FALSE, id)
  \/ Step(MaxDragSteps) /\ dragging # Null
       /\ \E c \in Coords : handleMouseMove(FALSE, c, c, Null)
  \/ Step(MaxDragSteps) /\ dragging # Null
       /\ \E nearest \in {Null} \cup {Some(i) : i \in LaidOut(tree)} :
            handleMouseMove(TRUE, 1, 1, nearest)
  \/ Step(MaxDragSteps) /\ dragging # Null /\ handleMouseUp

SpecDrag == InitDrag /\ [][NextDrag]_vars

(* The history near its capacity: the editor after k clicks on the toolbar's
   Toggle with the root selected, k within 2 of the capacity, and then Toggle,
   Undo, Redo and drags of the root in any order. *)
RECURSIVE AfterToggles(_)
\* The tree and the undo stack after k toggleCollapse(root) from the one-node tree.
AfterToggles(k) ==
  IF k = 0 THEN [tree |-> Root(<<>>), undo |-> <<>>]
  ELSE LET p == AfterToggles(k - 1)
       IN [tree |-> toggleCollapseTree(p.tree, p.tree.id),
           undo |-> pushUndo([undo |-> p.undo, redo |-> <<>>],
                             snapshot(p.tree, p.tree.id)).undo]

InitHist ==
  \E k \in (HistoryCap - 2)..HistoryCap :
    InitState(AfterToggles(k).tree, AfterToggles(k).undo)

NextHist ==
  \/ Step(MaxHistSteps) /\ toggleCollapse(selectedId)
  \/ Step(MaxHistSteps) /\ undoStack # <<>> /\ undo
  \/ Step(MaxHistSteps) /\ redoStack # <<>> /\ redo
  \/ Step(MaxHistSteps) /\ handleMouseDownNode(FALSE, tree.id)
  \/ Step(MaxHistSteps) /\ dragging # Null
       /\ \E c \in Coords : handleMouseMove(FALSE, c, c, Null)
  \/ Step(MaxHistSteps) /\ dragging # Null /\ handleMouseMove(TRUE, 1, 1, Null)
  \/ Step(MaxHistSteps) /\ dragging # Null /\ handleMouseUp

SpecHist == InitHist /\ [][NextHist]_vars

(* A script: up to MaxEdits edits E1..Ek, each one handler call or one whole
   drag gesture (pointer-down, pointer-moves, pointer-up), then k undos, then
   k redos.  script.treeK is the tree right after Ek. *)
Scripted(phase, k, u, r, moves, treeK) ==
  /\ script' = [phase |-> phase, k |-> k, u |-> u, r |-> r, moves |-> moves,
                treeK |-> treeK]
  /\ steps' = steps + 1

Editing == script.phase = "edit" /\ script.k < MaxEdits

EditDone == Scripted("edit", script.k + 1, 0, 0, 0, Some(tree'))

InGesture(moves) == Scripted("edit", script.k, 0, 0, moves, script.treeK)

NextInverse ==
  \/ Editing /\ dragging = Null /\ (\E id \in IdInputs : addChild(id)) /\ EditDone
  \/ Editing /\ dragging = Null /\ (\E id \in IdInputs : deleteNode(id)) /\ EditDone
  \/ Editing /\ dragging = Null
       /\ (\E id \in IdInputs, name \in NameInputs : renameNode(id, name)) /\ EditDone
  \/ Editing /\ dragging = Null /\ (\E id \in IdInputs : toggleCollapse(id)) /\ EditDone
  \/ Editing /\ dragging = Null
       /\ (\E c \in IdInputs, p \in IdInputs : reparent(c, p)) /\ EditDone
  \/ Editing /\ dragging = Null
       /\ (\E id \in LaidOut(tree) : handleMouseDownNode(FALSE, id)) /\ InGesture(0)
  \/ Editing /\ dragging # Null /\ script.moves < MaxMoves
       /\ (\E c \in Coords : handleMouseMove(FALSE, c, c, Null))
       /\ InGesture(script.moves + 1)
  \/ Editing /\ dragging # Null /\ script.moves < MaxMoves
       /\ (\E nearest \in {Null} \cup {Some(i) : i \in LaidOut(tree)} :
             handleMouseMove(TRUE, 1, 1, nearest))
       /\ InGesture(script.moves + 1)
  \/ Editing /\ dragging # Null /\ handleMouseUp /\ EditDone
  \/ /\ script.phase \in {"edit", "undo"} /\ dragging = Null
     /\ script.k >= 1 /\ script.u < script.k
     /\ undo
     /\ Scripted("undo", script.k, script.u + 1, 0, 0, script.treeK)
  \/ /\ script.phase \in {"undo", "redo"}
     /\ script.u = script.k /\ script.r < script.k
     /\ redo
     /\ Scripted("redo", script.k, script.u, script.r + 1, 0, script.treeK)

InitInverse == InitWith({Root(<<Leaf(2)>>), Root(<<Node(2, <<"Idea">>, <<Leaf(3)>>)>>)})

SpecInverse == InitInverse /\ [][NextInverse]_vars

----------------------------------------------------------------------------
(* JSON texts and the values JSON.parse gives *)

\* A JavaScript value read from JSON: kind is "null", "number", "string",
\* "array" or "object"; "garbage" stands for characters that are no JSON value.
JValue(kind, num, str, items, members) ==
  [kind |-> kind, num |-> num, str |-> str, items |-> items, members |-> members]

jNull == JValue("null", 0, <<>>, <<>>, <<>>)
jGarbage == JValue("garbage", 0, <<>>, <<>>, <<>>)
jNum(n) == JValue("number", n, <<>>, <<>>, <<>>)
jStr(str) == JValue("string", 0, str, <<>>, <<>>)
jArr(items) == JValue("array", 0, <<>>, items, <<>>)
jObj(members) == JValue("object", 0, <<>>, <<>>, members)

Member(key, val) == [key |-> key, val |-> val]

\* A text is the sequence of the values written in it.  JSON.parse(text)
\* returns the value when the text holds exactly one value and throws
\* (Null here) otherwise: the empty text, trailing characters, garbage.
JSONparse(text) ==
  IF Len(text) = 1 /\ text[1].kind # "garbage" THEN Some(text[1]) ELSE Null

\* n[key]: the property of a parsed value, undefined (Null) when it has none.
\* Reading a property of null throws; callers test for null first.
get(n, key) ==
  LET hits == SelectSeq(n.members, LAMBDA m : m.key = key)
  IN IF n.kind = "object" /\ hits # <<>> THEN Some(hits[Len(hits)].val) ELSE Null

\* !v for a parsed value, undefined included.
falsy(v) ==
  \/ v = Null
  \/ v[1].kind = "null"
  \/ v[1].kind = "number" /\ v[1].num = 0
  \/ v[1].kind = "string" /\ v[1].str = <<>>

\* The members JSON.stringify writes for optional properties: undefined ones are left out.
optional(key, v, toJ(_)) == IF v = Null THEN <<>> ELSE <<Member(key, toJ(v[1]))>>

jBool(b) == JValue(IF b THEN "true" ELSE "false", 0, <<>>, <<>>, <<>>)

----------------------------------------------------------------------------
(* App.jsx: exportJSON and importJSON *)

\* A faulty variant of strip: the manual positions are not written.
stripNamesOnly(n) ==
  LET RECURSIVE go(_)
      go(m) == jObj(<<Member("name", jStr(m.name)),
                      Member("children", jArr([i \in 1..Len(m.children) |->
                                                  go(m.children[i])]))>>)
  IN go(n)

\* strip(n): name, px and py when both are defined, children.
strip(n) ==
  LET RECURSIVE go(_)
      go(m) ==
        jObj(<<Member("name", jStr(m.name))>>
             \o (IF m.px # Null /\ m.py # Null
                 THEN <<Member("px", jNum(m.px[1])), Member("py", jNum(m.py[1]))>>
                 ELSE <<>>)
             \o <<Member("children", jArr([i \in 1..Len(m.children) |->
                                             go(m.children[i])]))>>)
  IN go(n)

\* The text of the file exportJSON() downloads for tree t.
exportJSON(t) == <<strip(t)>>

\* addIds(n) with nanoid handing out nano, nano + 1, ...: Null when it throws
\* (n is null, or children is neither falsy nor an array), else the node built
\* and the next unused id.  name ?? 'Node'; px and py kept when both are defined.
addIds(json, nano) ==
  LET RECURSIVE go(_, _)
      go(n, next) ==
        IF n.kind = "null" THEN Null
        ELSE LET name == get(n, "name")
                 kids == IF falsy(get(n, "children")) THEN jArr(<<>>)
                         ELSE get(n, "children")[1]
                 px == get(n, "px")
                 py == get(n, "py")
                 RECURSIVE each(_, _, _)
                 each(i, done, nx) ==
                   IF i > Len(kids.items) THEN Some([nodes |-> done, next |-> nx])
                   ELSE LET c == go(kids.items[i], nx)
                        IN IF c = Null THEN Null
                           ELSE each(i + 1, Append(done, c[1].node), c[1].next)
             IN IF kids.kind # "array" THEN Null
                ELSE LET cs == each(1, <<>>, next + 1)
                     IN IF cs = Null THEN Null
                        ELSE Some([node |->
                                     [id |-> next,
                                      name |-> IF name = Null \/ name[1].kind = "null"
                                               THEN <<"Node">> ELSE name[1].str,
                                      children |-> cs[1].nodes,
                                      collapsed |-> Null,
                                      px |-> IF px # Null /\ py # Null
                                             THEN Some(px[1].num) ELSE Null,
                                      py |-> IF px # Null /\ py # Null
                                             THEN Some(py[1].num) ELSE Null],
                                   next |-> cs[1].next])
  IN go(json, nano)

\* A faulty variant of importResult: the history is emptied before the text is read.
importResultClearsFirst(text, nano) ==
  LET json == JSONparse(text)
      withIds == IF json = Null THEN Null ELSE addIds(json[1], nano)
  IN IF withIds = Null
     THEN [outcome |-> "alert", tree |-> tree, selectedId |-> selectedId,
           undo |-> <<>>, redo |-> <<>>, next |-> nano]
     ELSE [outcome |-> "imported", tree |-> withIds[1].node,
           selectedId |-> withIds[1].node.id, undo |-> <<>>, redo |-> <<>>,
           next |-> withIds[1].next]

\* reader.onload of importJSON(file): the App state it leaves and whether it alerted.
importResult(text, nano) ==
  LET json == JSONparse(text)
      withIds == IF json = Null THEN Null ELSE addIds(json[1], nano)
  IN IF withIds = Null
     THEN [outcome |-> "alert", tree |-> tree, selectedId |-> selectedId,
           undo |-> undoStack, redo |-> redoStack, next |-> nano]
     ELSE [outcome |-> "imported", tree |-> withIds[1].node,
           selectedId |-> withIds[1].node.id, undo |-> <<>>, redo |-> <<>>,
           next |-> withIds[1].next]

importJSON(text) ==
  LET r == importResult(text, nextId)
  IN /\ tree' = r.tree
     /\ selectedId' = ensureSelected(r.tree, r.selectedId)
     /\ undoStack' = r.undo
     /\ redoStack' = r.redo
     /\ nextId' = r.next
     /\ UNCHANGED <<preDragSnapshot, dragging, hoverTargetId>>
     /\ Did("importJSON", <<text, r.outcome>>)
     /\ gest' = NoGesture

\* reset(): the App state it sets, nanoid handing out nano; selectedId is set
\* to null (0: no selection).
resetState(nano) ==
  [tree |-> assignIds(<<"Central", " ", "Topic">>, nano), selectedId |-> 0,
   undo |-> <<>>, redo |-> <<>>]

reset ==
  LET r == resetState(nextId)
  IN /\ tree' = r.tree
     /\ selectedId' = ensureSelected(r.tree, r.selectedId)
     /\ undoStack' = r.undo
     /\ redoStack' = r.redo
     /\ nextId' = nextId + 1
     /\ UNCHANGED <<preDragSnapshot, dragging, hoverTargetId>>
     /\ Did("reset", <<>>)
     /\ gest' = NoGesture

----------------------------------------------------------------------------
(* App.jsx: startup from localStorage *)

\* DEFAULT_TREE, nanoid handing out 1, 2, ... in the order assignIds asks.
DEFAULT_TREE ==
  Node(1, <<"Central", " ", "Topic">>,
       <<Node(2, <<"Idea", " ", "A">>,
              <<Node(3, <<"Detail", " ", "A1">>, <<>>),
                Node(4, <<"Detail", " ", "A2">>, <<>>)>>),
         Node(5, <<"Idea", " ", "B">>, <<Node(6, <<"Detail", " ", "B1">>, <<>>)>>),
         Node(7, <<"Idea", " ", "C">>, <<>>)>>)

\* The autosave effect: the text JSON.stringify(tree) stores under 'mindmap.tree'.
stringifyTree(t) ==
  LET RECURSIVE go(_)
      go(m) ==
        jObj(<<Member("id", jNum(m.id)), Member("name", jStr(m.name)),
               Member("children", jArr([i \in 1..Len(m.children) |-> go(m.children[i])]))>>
             \o optional("collapsed", m.collapsed, jBool)
             \o optional("px", m.px, jNum)
             \o optional("py", m.py, jNum))
  IN <<go(t)>>

\* The tree object JSON.parse gives for the text of a tree.
parsedTree(json) ==
  LET RECURSIVE go(_)
      go(n) ==
        [id |-> get(n, "id")[1].num,
         name |-> get(n, "name")[1].str,
         children |-> [i \in 1..Len(get(n, "children")[1].items) |->
                         go(get(n, "children")[1].items[i])],
         collapsed |-> IF get(n, "collapsed") = Null THEN Null
                       ELSE Some(get(n, "collapsed")[1].kind = "true"),
         px |-> IF get(n, "px") = Null THEN Null ELSE Some(get(n, "px")[1].num),
         py |-> IF get(n, "py") = Null THEN Null ELSE Some(get(n, "py")[1].num)]
  IN go(json)

\* The first render of App with saved = localStorage.getItem('mindmap.tree')
\* (Null: no item) and savedSelected = getItem('mindmap.selected'): "threw"
\* when JSON.parse throws in the useState initialiser or the render reads
\* tree.id of null, else the tree and the selection it starts with.  The items
\* are texts the autosave wrote, whole or damaged, or the text null.
startState(saved, savedSelected) ==
  LET start(t) == [outcome |-> "mounted", tree |-> t,
                   selectedId |-> IF savedSelected = Null THEN t.id
                                  ELSE savedSelected[1]]
      threw == [outcome |-> "threw", tree |-> tree, selectedId |-> selectedId]
  IN IF saved = Null \/ saved[1] = <<>> THEN start(DEFAULT_TREE)
     ELSE IF JSONparse(saved[1]) = Null THEN threw
     ELSE IF JSONparse(saved[1])[1].kind = "null" THEN threw
     ELSE start(parsedTree(JSONparse(saved[1])[1]))

\* Before the first render there is no tree (Null) and no selection (0).
Mounted == tree # Null

mount(saved, savedSelected) ==
  LET r == startState(saved, savedSelected)
  IN /\ ~Mounted
     /\ last.op = "boot"
     /\ tree' = r.tree
     /\ selectedId' = IF r.outcome = "mounted"
                      THEN ensureSelected(r.tree, r.selectedId) ELSE selectedId
     /\ nextId' = IF r.outcome = "mounted" THEN Len(NodeIdSeq(r.tree)) + 1 ELSE nextId
     /\ UNCHANGED <<undoStack, redoStack, preDragSnapshot, dragging, hoverTargetId>>
     /\ UNCHANGED <<steps, script>>
     /\ Did("mount", <<saved, savedSelected, r.outcome>>)
     /\ gest' = NoGesture

\* What 'mindmap.tree' can hold at startup: nothing, the empty text, the text
\* of a tree an earlier session saved, such a text cut short, the text null.
SavedTrees ==
  {Null, Some(<<>>), Some(<<jNull>>), Some(<<jGarbage>>)}
    \cup {Some(stringifyTree(t)) : t \in PersistedTrees}
    \cup {Some(stringifyTree(t) \o <<jGarbage>>) : t \in {Root(<<Leaf(2)>>)}}

SavedSelections == {Null, Some(2), Some(9)}

\* Files the user picks for import besides the one just exported.
OtherFiles ==
  { <<>>,
    <<jGarbage>>,
    <<jNull>>,
    <<jNum(5)>>,
    <<jObj(<<Member("name", jStr(<<"a">>)), Member("children", jNum(5))>>)>>,
    <<jObj(<<Member("name", jStr(<<"a">>)),
             Member("children",
                    jArr(<<jObj(<<Member("name", jStr(<<"b">>))>>), jNull>>))>>)>>,
    <<jObj(<<Member("children",
                    jArr(<<jObj(<<Member("name", jNull), Member("px", jNum(1))>>),
                           jObj(<<Member("name", jStr(<<"b">>)), Member("px", jNum(1)),
                                  Member("py", jNum(2)),
                                  Member("children", jNull)>>)>>))>>)>> }

InitIO ==
  /\ tree = Null
  /\ selectedId = 0
  /\ undoStack = <<>>
  /\ redoStack = <<>>
  /\ preDragSnapshot = Null
  /\ dragging = Null
  /\ hoverTargetId = Null
  /\ nextId = 1
  /\ last = [op |-> "boot", args |-> <<>>, pre |-> Pre]
  /\ gest = NoGesture
  /\ steps = 0
  /\ script = NoScript

(* A session from the page load: the first render, then imports of the file
   just exported or of another file, Toggle and Undo on the selection, and
   drags. *)
NextIO ==
  \/ \E saved \in SavedTrees, savedSelected \in SavedSelections :
       mount(saved, savedSelected)
  \/ Mounted /\ Step(MaxIOSteps)
       /\ \E text \in {exportJSON(tree)} \cup OtherFiles : importJSON(text)
  \/ Mounted /\ Step(MaxIOSteps) /\ toggleCollapse(selectedId)
  \/ Mounted /\ Step(MaxIOSteps) /\ undoStack # <<>> /\ undo
  \/ Mounted /\ Step(MaxIOSteps)
       /\ \E id \in LaidOut(tree) : handleMouseDownNode(FALSE, id)
  \/ Mounted /\ Step(MaxIOSteps) /\ dragging # Null
       /\ \E c \in Coords : handleMouseMove(FALSE, c, c, Null)
  \/ Mounted /\ Step(MaxIOSteps) /\ dragging # Null /\ handleMouseUp

SpecIO == InitIO /\ [][NextIO]_vars

(* A session in which the selection moves: edits with any id, Rename and
   Toggle on the selection, Undo, Redo, pointer-down on a node, Shift-drags
   dropped on a node, imports and Reset. *)
SessionFiles ==
  {exportJSON(tree), <<jNull>>,
   <<jObj(<<Member("name", jStr(<<"a">>)),
            Member("children", jArr(<<jObj(<<Member("name", jStr(<<"b">>))>>)>>))>>)>>}

NextSession ==
  \/ Step(MaxSessionSteps) /\ \E id \in IdInputs : addChild(id)
  \/ Step(MaxSessionSteps) /\ \E id \in IdInputs : deleteNode(id)
  \/ Step(MaxSessionSteps) /\ \E c \in IdInputs, p \in IdInputs : reparent(c, p)
  \/ Step(MaxSessionSteps) /\ renameNode(selectedId, <<"y">>)
  \/ Step(MaxSessionSteps) /\ toggleCollapse(selectedId)
  \/ Step(MaxSessionSteps) /\ undo
  \/ Step(MaxSessionSteps) /\ redo
  \/ Step(MaxSessionSteps) /\ \E id \in LaidOut(tree) : handleMouseDownNode(TRUE, id)
  \/ Step(MaxSessionSteps) /\ dragging # Null
       /\ \E nearest \in {Some(i) : i \in LaidOut(tree) \ {dragging[1].id}} :
            handleMouseMove(TRUE, 1, 1, nearest)
  \/ Step(MaxSessionSteps) /\ dragging # Null /\ handleMouseUp
  \/ Step(MaxSessionSteps) /\ \E text \in SessionFiles : importJSON(text)
  \/ Step(MaxSessionSteps) /\ reset

SpecSession == InitInverse /\ [][NextSession]_vars

----------------------------------------------------------------------------
(* Vocabulary of the properties *)

pre == last.pre

nodeOf(t, id) == findNode(t, id)[1]

ChildIds(n) == [i \in 1..Len(n.children) |-> n.children[i].id]

SameFields(a, b) ==
  a.name = b.name /\ a.collapsed = b.collapsed /\ a.px = b.px /\ a.py = b.py

\* Node m is in both trees with the same fields and the same children in the same order.
SameNode(t1, t2, m) ==
  /\ SameFields(nodeOf(t1, m), nodeOf(t2, m))
  /\ ChildIds(nodeOf(t1, m)) = ChildIds(nodeOf(t2, m))

AppUnchanged ==
  /\ tree = pre.tree
  /\ selectedId = pre.selectedId
  /\ undoStack = pre.undoStack
  /\ redoStack = pre.redoStack

----------------------------------------------------------------------------
(* C1: a drag gesture of N >= 1 moveNode calls followed by one moveCommit adds
   exactly one entry to the undo stack, and that entry is the snapshot (tree
   and selection) taken before the first moveNode of the gesture; an undo
   right after it restores exactly that pre-drag tree. *)
C1_DragIsOneUndoStep ==
  /\ (gest.phase = "committed" /\ gest.n >= 1 /\ Len(gest.undo0) < HistoryCap)
       => undoStack = Append(gest.undo0, gest.snap[1])
  /\ (gest.phase = "undone" /\ gest.n >= 1) => tree = gest.snap[1].tree

----------------------------------------------------------------------------
(* C2: starting from an empty history, after any sequence of k edits E1..Ek
   (addChild, deleteNode, renameNode, toggleCollapse, reparent, or a drag
   gesture ended by pointer-up), k undos followed by k redos give a tree equal
   to the tree right after Ek. *)
C2_UndoRedoInverse ==
  (script.phase = "redo" /\ script.r = script.k) => tree = script.treeK[1]

\* Two edits that changed the tree were both undone, down to the first tree,
\* and both redone.
C2_Witness ==
  /\ script.phase = "redo" /\ script.k = 2 /\ script.r = 2
  /\ Len(undoStack) = 2
  /\ undoStack[1].tree # undoStack[2].tree
  /\ undoStack[2].tree # tree

----------------------------------------------------------------------------
(* C3: each addChild, non-root deleteNode, renameNode, toggleCollapse and
   accepted reparent first pushes onto the undo stack one snapshot equal to the
   tree and selection before the edit (so a single undo restores the pre-edit
   tree); moveNode is the only edit of the tree that pushes nothing. *)
PushingEdit ==
  \/ last.op \in {"addChild", "renameNode", "toggleCollapse"}
  \/ last.op = "deleteNode" /\ last.args[1] # pre.tree.id
  \/ last.op = "reparent"
       /\ reparentResult(pre.tree, last.args[1], last.args[2]).outcome = "moved"

C3_EditsPushSnapshot ==
  /\ PushingEdit =>
       /\ undoStack # <<>>
       /\ undoStack[Len(undoStack)] =
            [tree |-> pre.tree, selectedId |-> pre.selectedId]
       /\ Len(pre.undoStack) < HistoryCap =>
            undoStack = Append(pre.undoStack, undoStack[Len(undoStack)])
  /\ (last.op = "mouseMove" /\ tree # pre.tree) => undoStack = pre.undoStack

----------------------------------------------------------------------------
(* C4: the undo stack never holds more than 10 snapshots, and when an 11th
   snapshot is pushed (by an edit's pushUndo or by moveCommit) the oldest entry
   is the one discarded: the 10 most recent are kept in order. *)
Pushed ==
  \/ /\ last.op \in {"addChild", "renameNode", "toggleCollapse"}
     /\ pre.preDragSnapshot = Null
  \/ /\ last.op = "deleteNode" /\ last.args[1] # pre.tree.id
     /\ pre.preDragSnapshot = Null
  \/ /\ last.op = "reparent"
     /\ reparentResult(pre.tree, last.args[1], last.args[2]).outcome = "moved"
     /\ pre.preDragSnapshot = Null
  \/ /\ last.op = "mouseUp" /\ pre.dragging # Null
     /\ pre.dragging[1].mode = "move" /\ pre.preDragSnapshot # Null

C4_UndoStackCapacity ==
  /\ Len(undoStack) <= 10
  /\ (Pushed /\ Len(pre.undoStack) = 10) =>
       /\ Len(undoStack) = 10
       /\ \A i \in 1..9 : undoStack[i] = pre.undoStack[i + 1]
       /\ undoStack[10] = IF last.op = "mouseUp" THEN pre.preDragSnapshot[1]
                          ELSE [tree |-> pre.tree, selectedId |-> pre.selectedId]

\* An 11th snapshot was pushed, by an edit and by a drag commit, onto a full
\* stack whose two oldest entries differ.
C4_Witness ==
  /\ Pushed /\ Len(pre.undoStack) = 10
  /\ last.op = "mouseUp"
  /\ pre.undoStack[1] # pre.undoStack[2]

----------------------------------------------------------------------------
(* C5: an edit other than undo/redo that changes the tree (addChild,
   deleteNode, renameNode, toggleCollapse, an accepted reparent, a drag that
   moved a node) leaves the redo stack empty once the edit or the gesture has
   completed. *)
C5_EditsClearRedo ==
  /\ (/\ last.op \in {"addChild", "deleteNode", "renameNode", "toggleCollapse",
                       "reparent"}
      /\ tree # pre.tree)
     => redoStack = <<>>
  /\ (/\ last.op = "mouseUp"
      /\ gest.phase \in {"committed", "ended"}
      /\ gest.n >= 1
      /\ tree # gest.snap[1].tree)
     => redoStack = <<>>

----------------------------------------------------------------------------
(* C6: for a tree with unique ids and a non-root node n of it, deleteNode(n.id)
   gives a tree whose nodes are exactly the old nodes minus the subtree rooted
   at n, every remaining node keeping its fields and the order of its remaining
   children; deleteNode(root.id) leaves tree, selection and history unchanged. *)
C6_DeleteRemovesExactlySubtree ==
  (last.op = "deleteNode" /\ UniqueIds(pre.tree)) =>
    LET id == last.args[1]
    IN IF id = pre.tree.id THEN AppUnchanged
       ELSE IF id \notin NodeIds(pre.tree) THEN TRUE
       ELSE LET gone == NodeIds(nodeOf(pre.tree, id))
            IN /\ UniqueIds(tree)
               /\ NodeIds(tree) = NodeIds(pre.tree) \ gone
               /\ \A m \in NodeIds(tree) :
                    /\ SameFields(nodeOf(tree, m), nodeOf(pre.tree, m))
                    /\ ChildIds(nodeOf(tree, m)) =
                         SelectSeq(ChildIds(nodeOf(pre.tree, m)), LAMBDA c : c # id)

\* A node with a child of its own was deleted from under a root that keeps another child.
C6_Witness ==
  /\ last.op = "deleteNode"
  /\ last.args[1] # pre.tree.id
  /\ last.args[1] \in NodeIds(pre.tree)
  /\ Cardinality(NodeIds(nodeOf(pre.tree, last.args[1]))) >= 2
  /\ Cardinality(NodeIds(tree)) >= 2

----------------------------------------------------------------------------
(* C7: reparent(childId, newParentId) with childId the root, or childId equal
   to newParentId, or newParentId a descendant of childId, changes neither the
   tree nor the selection nor either history stack. *)
C7_ReparentRejected ==
  LET c == last.args[1]
      p == last.args[2]
  IN (/\ last.op = "reparent"
      /\ \/ c = pre.tree.id
         \/ c = p
         \/ c \in NodeIds(pre.tree) /\ p \in NodeIds(nodeOf(pre.tree, c)))
     => AppUnchanged

\* A non-root node was asked to move under one of its proper descendants.
C7_Witness ==
  /\ last.op = "reparent"
  /\ last.args[1] # pre.tree.id
  /\ last.args[1] \in NodeIds(pre.tree)
  /\ last.args[2] # last.args[1]
  /\ last.args[2] \in NodeIds(nodeOf(pre.tree, last.args[1]))

----------------------------------------------------------------------------
\* The id of the parent of node id in tree t (the tree has unique ids, id is not the root).
ParentOf(t, id) ==
  CHOOSE a \in NodeIds(t) : \E i \in 1..Len(nodeOf(t, a).children) :
                               nodeOf(t, a).children[i].id = id

\* The last handler was reparent(B, A) with A the parent B already had.
ReparentOntoOwnParent ==
  /\ last.op = "reparent"
  /\ UniqueIds(pre.tree)
  /\ last.args[1] \in NodeIds(pre.tree) \ {pre.tree.id}
  /\ last.args[2] = ParentOf(pre.tree, last.args[1])

(* C8: reparenting a node B onto the parent A it already has is a no-op: the
   tree is unchanged, including the order of A's children. *)
C8_ReparentOntoParentIsNoOp ==
  ReparentOntoOwnParent => tree = pre.tree

(* What reparent(B, A) does in that case: it keeps the node set and every
   node's fields and subtree, and makes B the last child of A, the other
   children of A keeping their order; the tree is unchanged exactly when B was
   already the last child of A.  A snapshot is pushed either way. *)
ReparentOntoParentMovesLast ==
  ReparentOntoOwnParent =>
    LET b == last.args[1]
        a == last.args[2]
        was == ChildIds(nodeOf(pre.tree, a))
    IN /\ UniqueIds(tree)
       /\ NodeIds(tree) = NodeIds(pre.tree)
       /\ ChildIds(nodeOf(tree, a)) =
            SelectSeq(was, LAMBDA c : c # b) \o <<b>>
       /\ nodeOf(tree, b) = nodeOf(pre.tree, b)
       /\ \A m \in NodeIds(tree) :
            /\ SameFields(nodeOf(tree, m), nodeOf(pre.tree, m))
            /\ m # a => ChildIds(nodeOf(tree, m)) = ChildIds(nodeOf(pre.tree, m))
       /\ (tree = pre.tree) <=> (was[Len(was)] = b)
       /\ pre.preDragSnapshot = Null =>
            /\ undoStack # <<>>
            /\ undoStack[Len(undoStack)] =
                 [tree |-> pre.tree, selectedId |-> pre.selectedId]

\* B was the first of two children of A and is now the second.
ReparentOntoParentReordered ==
  /\ ReparentOntoOwnParent
  /\ Len(nodeOf(pre.tree, last.args[2]).children) >= 2
  /\ nodeOf(pre.tree, last.args[2]).children[1].id = last.args[1]
  /\ tree # pre.tree

----------------------------------------------------------------------------
(* C9: reparent(childId, newParentId) with childId a non-root node of the tree
   and newParentId the id of no node of the tree leaves the tree unchanged:
   the subtree rooted at childId is still in the tree afterwards. *)
C9_ReparentInvalidTargetIsNoOp ==
  (/\ last.op = "reparent"
   /\ last.args[1] \in NodeIds(pre.tree) \ {pre.tree.id}
   /\ last.args[2] \notin NodeIds(pre.tree))
  => /\ tree = pre.tree
     /\ last.args[1] \in NodeIds(tree)

----------------------------------------------------------------------------
(* C10: addChild(parentId) with parentId in the tree appends exactly one new
   node (name "New Node", no children, an id no node of the tree had) as the
   last child of that node and changes nothing else in the tree; with a
   parentId that is not in the tree the tree is unchanged. *)
C10_AddChildAppendsOne ==
  (last.op = "addChild" /\ UniqueIds(pre.tree)) =>
    LET id == last.args[1]
    IN IF id \notin NodeIds(pre.tree) THEN tree = pre.tree
       ELSE LET kids == nodeOf(tree, id).children
                new == kids[Len(kids)]
            IN /\ UniqueIds(tree)
               /\ new.id \notin NodeIds(pre.tree)
               /\ NodeIds(tree) = NodeIds(pre.tree) \cup {new.id}
               /\ new = Node(new.id, <<"New", " ", "Node">>, <<>>)
               /\ \A m \in NodeIds(pre.tree) :
                    /\ SameFields(nodeOf(tree, m), nodeOf(pre.tree, m))
                    /\ ChildIds(nodeOf(tree, m)) =
                         IF m = id THEN ChildIds(nodeOf(pre.tree, m)) \o <<new.id>>
                         ELSE ChildIds(nodeOf(pre.tree, m))

\* A child was added to a non-root node that already had a child.
C10_Witness ==
  /\ last.op = "addChild"
  /\ last.args[1] \in NodeIds(pre.tree) \ {pre.tree.id}
  /\ Len(nodeOf(pre.tree, last.args[1]).children) >= 1
  /\ Len(nodeOf(tree, last.args[1]).children) >= 2

\* addChild was called with an id that is not in the tree.
C10_WitnessNotFound ==
  /\ last.op = "addChild"
  /\ last.args[1] \notin NodeIds(pre.tree)

----------------------------------------------------------------------------
(* C14: after any sequence of addChild, deleteNode, renameNode,
   toggleCollapse, reparent, moveNode, moveCommit, undo and redo from a tree
   with pairwise distinct ids, no id occurs twice in the tree, the root's id is
   the one it started with, and no operation changes the id of a node that
   stays: rename, toggle and move keep the ids in place, addChild only adds
   one, deleteNode and reparent only remove or move ids.  (A tree value is a
   finite nesting of children lists, so it is single-rooted and acyclic.) *)
C14_TreeStaysWellFormed ==
  /\ UniqueIds(tree)
  /\ tree.id = Root(<<>>).id
  /\ last.op \in {"renameNode", "toggleCollapse", "mouseDown", "mouseMove"} =>
       NodeIdSeq(tree) = NodeIdSeq(pre.tree)
  /\ last.op = "addChild" =>
       /\ SelectSeq(NodeIdSeq(tree), LAMBDA m : m \in NodeIds(pre.tree)) =
            NodeIdSeq(pre.tree)
       /\ Len(NodeIdSeq(tree)) <= Len(NodeIdSeq(pre.tree)) + 1
  /\ last.op = "deleteNode" =>
       NodeIdSeq(tree) =
         SelectSeq(NodeIdSeq(pre.tree), LAMBDA m : m \in NodeIds(tree))
  /\ last.op \in {"reparent", "mouseUp"} => NodeIds(tree) \subseteq NodeIds(pre.tree)

\* A node added by addChild was then moved, with ids kept, under another node.
C14_Witness ==
  /\ last.op = "reparent"
  /\ tree # pre.tree
  /\ NodeIds(tree) = NodeIds(pre.tree)
  /\ Len(undoStack) = 2
  /\ Cardinality(NodeIds(undoStack[1].tree)) < Cardinality(NodeIds(tree))

----------------------------------------------------------------------------
(* C15: every drag session (pointer-down on a node, pointer-moves with the
   modifier pressed or released, pointer-up) that issued at least one moveNode
   is one undo step: whatever the mode at pointer-up, after it the undo stack
   has gained exactly one entry, and that entry holds the pre-drag tree. *)
C15_AnyDragIsOneUndoStep ==
  (/\ last.op = "mouseUp"
   /\ gest.phase \in {"committed", "ended"}
   /\ gest.n >= 1
   /\ Len(gest.undo0) < HistoryCap)
  => /\ Len(undoStack) = Len(gest.undo0) + 1
     /\ SubSeq(undoStack, 1, Len(gest.undo0)) = gest.undo0
     /\ undoStack[Len(undoStack)].tree = gest.snap[1].tree

----------------------------------------------------------------------------
(* C16: moveNode(id, x, y) is position-only and idempotent: it changes nothing
   but px and py of the node with that id (every other node and field, the
   selection, the undo stack and the redo stack are unchanged), and a second
   call with the same arguments leaves the state the first call gave. *)
C16_MoveNodePositionOnly ==
  (last.op = "mouseMove" /\ pre.dragging # Null /\ ~last.args[1]) =>
    LET id == pre.dragging[1].id
        x == last.args[2]
        y == last.args[3]
    IN /\ NodeIdSeq(tree) = NodeIdSeq(pre.tree)
       /\ \A m \in NodeIds(tree) :
            /\ ChildIds(nodeOf(tree, m)) = ChildIds(nodeOf(pre.tree, m))
            /\ nodeOf(tree, m).name = nodeOf(pre.tree, m).name
            /\ nodeOf(tree, m).collapsed = nodeOf(pre.tree, m).collapsed
            /\ IF m = id
               THEN nodeOf(tree, m).px = Some(x) /\ nodeOf(tree, m).py = Some(y)
               ELSE /\ nodeOf(tree, m).px = nodeOf(pre.tree, m).px
                    /\ nodeOf(tree, m).py = nodeOf(pre.tree, m).py
       /\ selectedId = pre.selectedId
       /\ undoStack = pre.undoStack
       /\ redoStack = pre.redoStack
       /\ moveNodeTree(tree, id, x, y) = tree
       /\ moveNodeSnapshot(preDragSnapshot, tree, selectedId) = preDragSnapshot

\* The second moveNode of a drag put a node that had a position somewhere else.
C16_Witness ==
  /\ last.op = "mouseMove" /\ pre.dragging # Null /\ ~last.args[1]
  /\ pre.preDragSnapshot # Null
  /\ pre.dragging[1].id \in NodeIds(tree)
  /\ nodeOf(pre.tree, pre.dragging[1].id).px # Null
  /\ tree # pre.tree

----------------------------------------------------------------------------
(* C17: undo with a non-empty undo stack removes its top snapshot, pushes the
   current tree and selection onto the redo stack and makes the removed
   snapshot the current tree and selection; redo does the same with the stacks
   exchanged; undo with an empty undo stack and redo with an empty redo stack
   change neither tree nor selection nor either stack. *)
C17_UndoRedoSteps ==
  LET now == [tree |-> pre.tree, selectedId |-> pre.selectedId]
  IN /\ last.op = "undo" =>
          IF pre.undoStack = <<>> THEN AppUnchanged
          ELSE LET top == pre.undoStack[Len(pre.undoStack)]
               IN /\ undoStack = SubSeq(pre.undoStack, 1, Len(pre.undoStack) - 1)
                  /\ redoStack = Append(pre.redoStack, now)
                  /\ tree = top.tree
                  /\ selectedId = top.selectedId
     /\ last.op = "redo" =>
          IF pre.redoStack = <<>> THEN AppUnchanged
          ELSE LET top == pre.redoStack[Len(pre.redoStack)]
               IN /\ redoStack = SubSeq(pre.redoStack, 1, Len(pre.redoStack) - 1)
                  /\ undoStack = Append(pre.undoStack, now)
                  /\ tree = top.tree
                  /\ selectedId = top.selectedId

\* A redo brought back another tree and another selection from a redo stack of two.
C17_Witness ==
  /\ last.op = "redo"
  /\ Len(pre.redoStack) = 2
  /\ tree # pre.tree
  /\ selectedId # pre.selectedId

\* An undo found the undo stack empty.
C17_WitnessEmpty ==
  /\ last.op = "undo"
  /\ pre.undoStack = <<>>

----------------------------------------------------------------------------
(* C18: an accepted reparent(childId, newParentId) with both ids in the tree
   removes the child from its old parent's children and appends it, with its
   whole subtree intact, as the last child of newParentId; the set of nodes,
   every other node's fields and the order of the other children are
   unchanged, and the selection becomes childId. *)
C18_ReparentMovesSubtree ==
  (/\ last.op = "reparent"
   /\ UniqueIds(pre.tree)
   /\ last.args[1] \in NodeIds(pre.tree)
   /\ last.args[2] \in NodeIds(pre.tree)
   /\ reparentResult(pre.tree, last.args[1], last.args[2]).outcome = "moved")
  => LET c == last.args[1]
         p == last.args[2]
     IN /\ UniqueIds(tree)
        /\ NodeIds(tree) = NodeIds(pre.tree)
        /\ nodeOf(tree, c) = nodeOf(pre.tree, c)
        /\ \A m \in NodeIds(tree) :
             /\ SameFields(nodeOf(tree, m), nodeOf(pre.tree, m))
             /\ ChildIds(nodeOf(tree, m)) =
                  SelectSeq(ChildIds(nodeOf(pre.tree, m)), LAMBDA k : k # c)
                    \o (IF m = p THEN <<c>> ELSE <<>>)
        /\ selectedId = c

\* A node with a child of its own left its parent for a node that had a child already.
C18_Witness ==
  /\ last.op = "reparent"
  /\ UniqueIds(pre.tree)
  /\ last.args[1] \in NodeIds(pre.tree) \ {pre.tree.id}
  /\ last.args[2] \in NodeIds(pre.tree)
  /\ reparentResult(pre.tree, last.args[1], last.args[2]).outcome = "moved"
  /\ last.args[2] # ParentOf(pre.tree, last.args[1])
  /\ nodeOf(pre.tree, last.args[1]).children # <<>>
  /\ Len(nodeOf(tree, last.args[2]).children) >= 2

----------------------------------------------------------------------------
(* C19: the layout holds exactly the nodes that have no collapsed proper
   ancestor: a collapsed node is laid out but has hasChildren false, none of
   its descendants has a LayoutNode or a link, there is exactly one link per
   laid-out node other than the root, the root has no incoming link, and
   collapsing leaves every hidden descendant in the tree. *)
VisibleIds(t) ==
  {m \in NodeIds(t) :
     \A a \in NodeIds(t) \ {m} :
       m \in NodeIds(nodeOf(t, a)) => nodeOf(t, a).collapsed # Some(TRUE)}

C19_LayoutHidesCollapsed ==
  LET nodes == layoutNodes(tree)
      links == layoutLinks(tree)
      targets == {links[i].target : i \in 1..Len(links)}
  IN (Mounted /\ UniqueIds(tree)) =>
       /\ {nodes[i].id : i \in 1..Len(nodes)} = VisibleIds(tree)
       /\ Len(nodes) = Cardinality(VisibleIds(tree))
       /\ \A i \in 1..Len(nodes) :
            LET n == nodeOf(tree, nodes[i].id)
            IN /\ n.collapsed = Some(TRUE) => ~nodes[i].hasChildren
               /\ nodes[i].hasChildren <=>
                    (n.collapsed # Some(TRUE) /\ n.children # <<>>)
               /\ (nodes[i].parentId = Null) <=> (nodes[i].id = tree.id)
       /\ targets = VisibleIds(tree) \ {tree.id}
       /\ Len(links) = Cardinality(targets)
       /\ \A i \in 1..Len(links) :
            /\ links[i].source \in VisibleIds(tree)
            /\ links[i].target = tree.id => FALSE
            /\ \E k \in 1..Len(nodes) :
                 nodes[k].id = links[i].target /\ nodes[k].parentId = Some(links[i].source)
       /\ last.op = "toggleCollapse" => NodeIdSeq(tree) = NodeIdSeq(pre.tree)

\* toggleCollapse collapsed a node under the root that has a child: the node is laid out,
\* its child is in the tree and not in the layout.
C19_Witness ==
  /\ last.op = "toggleCollapse"
  /\ last.args[1] \in NodeIds(tree) \ {tree.id}
  /\ nodeOf(tree, last.args[1]).collapsed = Some(TRUE)
  /\ nodeOf(tree, last.args[1]).children # <<>>
  /\ last.args[1] \in VisibleIds(tree)
  /\ VisibleIds(tree) # NodeIds(tree)

----------------------------------------------------------------------------
(* C20: in every reachable state the undo stack and the redo stack together
   hold at most 10 snapshots, so redo, which pushes onto the undo stack without
   trimming it, never makes the undo stack longer than 10. *)
C20_StacksTogetherWithinCapacity ==
  /\ Len(undoStack) + Len(redoStack) <= HistoryCap
  /\ last.op = "redo" => Len(undoStack) <= HistoryCap

\* A redo filled the undo stack to its capacity again.
C20_Witness ==
  /\ last.op = "redo"
  /\ pre.redoStack # <<>>
  /\ Len(undoStack) = HistoryCap

----------------------------------------------------------------------------
(* C11: importing the text exportJSON wrote for tree T gives a tree that,
   ignoring ids, has the shape and child order of T, the same name on every
   node, and the same px and py on every node of T that has both. *)
SameModuloIds(a, b) ==
  LET RECURSIVE same(_, _)
      same(x, y) ==
        /\ x.name = y.name
        /\ (y.px # Null /\ y.py # Null) => (x.px = y.px /\ x.py = y.py)
        /\ Len(x.children) = Len(y.children)
        /\ \A i \in 1..Len(y.children) : same(x.children[i], y.children[i])
  IN same(a, b)

C11_ExportImportRoundTrip ==
  (last.op = "importJSON" /\ last.args[1] = exportJSON(pre.tree)) =>
    /\ last.args[2] = "imported"
    /\ SameModuloIds(tree, pre.tree)

\* The exported tree had a child with a manual position and a collapsed node;
\* the imported one has new ids.
C11_Witness ==
  /\ last.op = "importJSON" /\ last.args[1] = exportJSON(pre.tree)
  /\ \E m \in NodeIds(pre.tree) \ {pre.tree.id} : nodeOf(pre.tree, m).px # Null
  /\ \E m \in NodeIds(pre.tree) : nodeOf(pre.tree, m).collapsed = Some(TRUE)
  /\ NodeIds(tree) \cap NodeIds(pre.tree) = {}

----------------------------------------------------------------------------
(* C12: an import whose text fails to parse or to convert ends in the alert
   and leaves the tree, the selection, the undo stack and the redo stack as
   they were before the import. *)
C12_FailedImportChangesNothing ==
  (/\ last.op = "importJSON"
   /\ \/ JSONparse(last.args[1]) = Null
      \/ addIds(JSONparse(last.args[1])[1], 1) = Null)
  => /\ last.args[2] = "alert"
     /\ AppUnchanged

\* The text parsed and its first child converted before the second one threw,
\* with a history to lose.
C12_Witness ==
  /\ last.op = "importJSON"
  /\ last.args[2] = "alert"
  /\ JSONparse(last.args[1]) # Null
  /\ JSONparse(last.args[1])[1].kind = "object"
  /\ pre.undoStack # <<>>

----------------------------------------------------------------------------
(* C13: at startup, when the persisted tree is absent or cannot be parsed the
   editor starts with the default tree ("Central Topic" with three example
   children) and raises no error; when it is present and parsable the editor
   starts with exactly the persisted tree. *)
C13_StartupTree ==
  last.op = "mount" =>
    LET saved == last.args[1]
    IN IF saved = Null \/ JSONparse(saved[1]) = Null
       THEN /\ last.args[3] = "mounted"
            /\ tree = DEFAULT_TREE
       ELSE \A t \in PersistedTrees :
              saved[1] = stringifyTree(t) =>
                /\ last.args[3] = "mounted"
                /\ tree = t

----------------------------------------------------------------------------
(* C21: whenever no drag session is active (before pointer-down and after
   pointer-up) no pre-drag snapshot is pending: preDragSnapshot is null. *)
C21_NoSnapshotPendingOutsideDrag ==
  dragging = Null => preDragSnapshot = Null

----------------------------------------------------------------------------
(* C22: once the "ensure selected exists" effect has run, the selection is the
   id of a node of the current tree, after any sequence of edits, undo, redo,
   import and reset: addChild selects the parent, deleteNode and a selection
   that no longer exists fall back to the root, reparent selects the moved
   node, and undo and redo restore a selection that exists in the restored
   tree. *)
C22_SelectionInTree ==
  /\ selectedId \in NodeIds(tree)
  /\ last.op = "addChild" =>
       selectedId = IF last.args[1] \in NodeIds(pre.tree) THEN last.args[1]
                    ELSE tree.id
  /\ (last.op = "deleteNode" /\ last.args[1] # pre.tree.id) => selectedId = tree.id
  /\ (/\ last.op = "reparent"
      /\ reparentResult(pre.tree, last.args[1], last.args[2]).outcome = "moved")
     => selectedId = IF last.args[1] \in NodeIds(tree) THEN last.args[1]
                     ELSE tree.id
  /\ (last.op = "undo" /\ pre.undoStack # <<>>) =>
       /\ pre.undoStack[Len(pre.undoStack)].selectedId
            \in NodeIds(pre.undoStack[Len(pre.undoStack)].tree)
       /\ selectedId = pre.undoStack[Len(pre.undoStack)].selectedId
  /\ (last.op = "redo" /\ pre.redoStack # <<>>) =>
       /\ pre.redoStack[Len(pre.redoStack)].selectedId
            \in NodeIds(pre.redoStack[Len(pre.redoStack)].tree)
       /\ selectedId = pre.redoStack[Len(pre.redoStack)].selectedId
  /\ (last.op = "importJSON" /\ last.args[2] = "imported") => selectedId = tree.id
  /\ last.op = "reset" => selectedId = tree.id

\* Reset ran with a node other than the root selected; the new root is selected.
C22_Witness ==
  /\ last.op = "reset"
  /\ pre.selectedId # pre.tree.id
  /\ pre.selectedId \notin NodeIds(tree)
  /\ selectedId = tree.id

\* A redo restored a selection other than the root's.
C22_WitnessRedo ==
  /\ last.op = "redo" /\ pre.redoStack # <<>>
  /\ selectedId # tree.id
  /\ selectedId # pre.selectedId

====
